---- MODULE Spec2Model ----
(***************************************************************************)
(* Model of the data persistence layer of directory-boilerplate:           *)
(* DataLoader (utils/dataLoader.ts), DataWriter and AuthUtils              *)
(* (utils/dataWriter.ts), the AuthGuard route gate and the AdminPage       *)
(* handlers that call them.                                                *)
(*                                                                         *)
(* JavaScript values are encoded by shape, so that values of different     *)
(* JavaScript types are always comparable:                                 *)
(*   string    [str  |-> <<"c","h","a","r","s">>]   (a tuple of characters)*)
(*   number    [num  |-> n]                                                *)
(*   boolean   [bool |-> b]                                                *)
(*   array     [arr  |-> <<v1, ..., vn>>]                                  *)
(*   null      [null |-> TRUE]         undefined  [undef |-> TRUE]         *)
(*   object    a record of its own keys (a missing key is not in DOMAIN)   *)
(* A text held by localStorage, an HTTP body or a file is [json |-> v]     *)
(* when it is the JSON serialisation of v and [garbage |-> TRUE] when it   *)
(* does not parse.                                                         *)
(***************************************************************************)
EXTENDS Integers, Sequences, FiniteSets, TLC

VARIABLES
    clock,          \* Date.now(), in milliseconds
    localStorage,   \* window.localStorage: key -> Null or a text
    route,          \* the page displayed: "/login", "/admin" or "/"
    items,          \* AdminPage state `items` (an array of agents)
    editingItem,    \* AdminPage state `editingItem` (an agent or Undefined)
    showForm,       \* AdminPage state `showForm`
    selectedItem,   \* AdminPage state `selectedItem` (an agent or Null)
    showDeleteConfirm, \* AdminPage state `showDeleteConfirm`
    inflight,       \* promises awaiting I/O: sequence of suspended calls
    callsLeft,      \* operations the admin page may still call in this run
    visitsLeft,     \* navigations to /admin still followed in this run
    last            \* history variable: what the step just taken called
                    \* (invoked, auth, id, input), what it completed (done,
                    \* result, the currentData it loaded, the record it
                    \* touched, fetched, resolvable, overlapped, whether
                    \* setItem rejected its write, the file it downloaded)
                    \* and the storage before it

vars == <<clock, localStorage, route, items, editingItem, showForm,
          selectedItem, showDeleteConfirm, inflight, callsLeft, visitsLeft, last>>

-----------------------------------------------------------------------------
(* Bounds of the model                                                     *)

\* clock ticks of one millisecond followed after each day boundary
MaxTicks == 1
\* calls that may be suspended on I/O at the same time
MaxInFlight == 2
\* operations (mutations, imports, exports) the admin page calls in a run of
\* Spec, which follows one visit of a logged-in administrator within a day
MaxCalls == 2
\* 24h jumps of the clock, visits of /admin and operations called in a run
\* of SpecSession, which follows logins, logouts and the expiry of sessions
MaxDays == 1
MaxSessionVisits == 2
MaxSessionCalls == 1

-----------------------------------------------------------------------------
(* JavaScript values                                                       *)

Null == [null |-> TRUE]
Undefined == [undef |-> TRUE]
Str(s) == [str |-> s]
Num(n) == [num |-> n]
Bool(b) == [bool |-> b]
Arr(s) == [arr |-> s]

IsString(v) == "str" \in DOMAIN v
IsNumber(v) == "num" \in DOMAIN v
IsBoolean(v) == "bool" \in DOMAIN v
IsArray(v) == "arr" \in DOMAIN v
IsNull(v) == "null" \in DOMAIN v
IsUndefined(v) == "undef" \in DOMAIN v
\* typeof v === 'object' && v !== null, for a non-array v
IsObject(v) ==
    ~IsString(v) /\ ~IsNumber(v) /\ ~IsBoolean(v) /\ ~IsArray(v)
    /\ ~IsNull(v) /\ ~IsUndefined(v)

\* v.k for an object v: undefined when v has no own key k
Get(v, k) == IF IsObject(v) /\ k \in DOMAIN v THEN v[k] ELSE Undefined

\* { ...a, ...b } for objects a and b
Spread(a, b) ==
    [k \in (DOMAIN a) \cup (DOMAIN b) |-> IF k \in DOMAIN b THEN b[k] ELSE a[k]]

\* const { k1, k2, ...rest } = v
Rest(v, ks) == [k \in (DOMAIN v) \ ks |-> v[k]]

SeqToSet(s) == {s[i] : i \in DOMAIN s}

RECURSIVE Flatten(_)
\* the concatenation of a sequence of sequences
Flatten(ss) == IF ss = <<>> THEN <<>> ELSE Head(ss) \o Flatten(Tail(ss))

RECURSIVE SelectIdx(_, _, _)
\* indices i >= from of s with s[i] in set S, in order
SelectIdx(s, S, from) ==
    IF from > Len(s) THEN <<>>
    ELSE IF s[from] \in S THEN <<from>> \o SelectIdx(s, S, from + 1)
    ELSE SelectIdx(s, S, from + 1)

-----------------------------------------------------------------------------
(* JSON.stringify / JSON.parse                                             *)

RECURSIVE DropUndefined(_)
\* what JSON.stringify keeps of a value: object keys holding undefined are
\* omitted, undefined array elements become null
DropUndefined(v) ==
    IF IsArray(v) THEN
        Arr([i \in DOMAIN v.arr |->
                IF IsUndefined(v.arr[i]) THEN Null ELSE DropUndefined(v.arr[i])])
    ELSE IF IsObject(v) THEN
        LET keep == {k \in DOMAIN v : ~IsUndefined(v[k])}
        IN  [k \in keep |-> DropUndefined(v[k])]
    ELSE v

JSONstringify(v) == [json |-> DropUndefined(v)]

\* JSON.parse(text) throws SyntaxError on a text that is not JSON
ParseThrows(text) == "json" \notin DOMAIN text
JSONparse(text) == text.json

-----------------------------------------------------------------------------
(* Strings: a string is a tuple of one-character strings                   *)

UpperLetters ==
    <<"A","B","C","D","E","F","G","H","I","J","K","L","M",
      "N","O","P","Q","R","S","T","U","V","W","X","Y","Z">>
LowerLetters ==
    <<"a","b","c","d","e","f","g","h","i","j","k","l","m",
      "n","o","p","q","r","s","t","u","v","w","x","y","z">>
Digits == <<"0","1","2","3","4","5","6","7","8","9">>

\* the position of each character of a table
PosIn(table) == [c \in SeqToSet(table) |-> CHOOSE i \in DOMAIN table : table[i] = c]
UpperPos == PosIn(UpperLetters)
LowerPos == PosIn(LowerLetters)
DigitPos == PosIn(Digits)

\* the position of c in the table tabulated as pos, 0 when it is not there
IndexOf(c, pos) == IF c \in DOMAIN pos THEN pos[c] ELSE 0

\* String.prototype.toLowerCase / toUpperCase, character by character
LowerChar(c) ==
    IF IndexOf(c, UpperPos) > 0 THEN LowerLetters[IndexOf(c, UpperPos)] ELSE c
UpperChar(c) ==
    IF IndexOf(c, LowerPos) > 0 THEN UpperLetters[IndexOf(c, LowerPos)] ELSE c
toLowerCase(s) == [i \in DOMAIN s |-> LowerChar(s[i])]
toUpperCase(s) == [i \in DOMAIN s |-> UpperChar(s[i])]

\* characters matched by \s
IsSpace(c) == c \in {" ", "\t", "\n"}

\* String.prototype.charCodeAt for the characters of the model's alphabet
charCode(c) ==
    IF IndexOf(c, UpperPos) > 0 THEN 64 + IndexOf(c, UpperPos)
    ELSE IF IndexOf(c, LowerPos) > 0 THEN 96 + IndexOf(c, LowerPos)
    ELSE IF IndexOf(c, DigitPos) > 0 THEN 47 + IndexOf(c, DigitPos)
    ELSE IF c = " " THEN 32
    ELSE IF c = "!" THEN 33
    ELSE IF c = "-" THEN 45
    ELSE IF c = "\t" THEN 9
    ELSE IF c = "\n" THEN 10
    ELSE 63

\* a replacement of every whitespace character by a hyphen
ReplaceSpaceRuns_Each(s) == [i \in DOMAIN s |-> IF IsSpace(s[i]) THEN "-" ELSE s[i]]

RECURSIVE ReplaceSpaceRuns(_)
\* s.replace(/\s+/g, '-'): every maximal run of whitespace becomes one hyphen
ReplaceSpaceRuns(s) ==
    IF s = <<>> THEN <<>>
    ELSE IF IsSpace(Head(s)) THEN
        IF Len(s) > 1 /\ IsSpace(s[2]) THEN ReplaceSpaceRuns(Tail(s))
        ELSE <<"-">> \o ReplaceSpaceRuns(Tail(s))
    ELSE <<Head(s)>> \o ReplaceSpaceRuns(Tail(s))

\* s.replace(/[^a-z0-9-]/g, '')
StripNonSlug(s) ==
    LET ok(c) == IndexOf(c, LowerPos) > 0 \/ IndexOf(c, DigitPos) > 0 \/ c = "-"
        idx == SelectIdx(s, {c \in SeqToSet(s) : ok(c)}, 1)
    IN  [i \in DOMAIN idx |-> s[idx[i]]]

RECURSIVE toString36(_)
\* Number.prototype.toString(36) of a non-negative integer
toString36(n) ==
    LET d == n % 36
        c == IF d < 10 THEN Digits[d + 1] ELSE LowerLetters[d - 9]
    IN  IF n < 36 THEN <<c>> ELSE toString36(n \div 36) \o <<c>>

\* the w low-order decimal digits of n, most significant first
DecimalDigits(n, w) == [i \in 1..w |-> Digits[((n \div (10 ^ (w - i))) % 10) + 1]]

\* Date.prototype.toISOString of the instant t (ms since the epoch): a
\* fixed-width text, so that text order is time order; modelled as "T"
\* followed by the 9 zero-padded decimal digits of t
toISOString(t) == <<"T">> \o DecimalDigits(t, 9)

\* whether new Date(s).getTime() is a number (not NaN) for the string s
IsIsoText(s) ==
    /\ Len(s) = 10
    /\ s[1] = "T"
    /\ \A i \in 2..10 : IndexOf(s[i], DigitPos) > 0

RECURSIVE DigitsValue(_)
DigitsValue(s) ==
    IF s = <<>> THEN 0
    ELSE 10 * DigitsValue(SubSeq(s, 1, Len(s) - 1)) + (IndexOf(s[Len(s)], DigitPos) - 1)

\* new Date(s).getTime() for a string s with IsIsoText(s)
getTime(s) == DigitsValue(Tail(s))

-----------------------------------------------------------------------------
(* DataWriter: identifiers and logos                                       *)

\* DataWriter.generateId(name), with Date.now() = now
generateId(name, now) ==
    StripNonSlug(ReplaceSpaceRuns(toLowerCase(name))) \o <<"-">> \o toString36(now)

\* The colour is built from bits 0..23 of the hash only, and <<, - and + all
\* commute with reduction modulo 2^24, so the hash is carried modulo 2^24
\* (the 32-bit intermediate values of the code do not fit TLC's
\* integers; the 24 low bits are exactly those of the code's hash).
Low24(x) == x % 16777216

RECURSIVE HashFrom(_, _)
\* the loop of stringToColor: hash = charCode + ((hash << 5) - hash)
HashFrom(hash, s) ==
    IF s = <<>> THEN hash
    ELSE HashFrom(Low24(charCode(Head(s)) + (Low24(hash * 32) - hash)), Tail(s))

HexDigits == Digits \o <<"a","b","c","d","e","f">>

\* ('00' + value.toString(16)).substr(-2) for 0 <= value <= 255
Hex2(value) == <<HexDigits[(value \div 16) + 1], HexDigits[(value % 16) + 1]>>

\* DataWriter.stringToColor(str)
stringToColor(s) ==
    LET hash == HashFrom(0, s)
        \* (hash >> (i * 8)) & 0xFF
        byte(i) == (hash \div (2 ^ (8 * i))) % 256
    IN  <<"#">> \o Hex2(byte(0)) \o Hex2(byte(1)) \o Hex2(byte(2))

RECURSIVE SplitOnSpace(_)
\* name.split(' '): the pieces between single space characters
SplitOnSpace(s) ==
    LET sp == SelectIdx(s, {" "}, 1)
    IN  IF sp = <<>> THEN <<s>>
        ELSE <<SubSeq(s, 1, sp[1] - 1)>> \o SplitOnSpace(SubSeq(s, sp[1] + 1, Len(s)))

\* DataWriter.getInitials(name):
\* name.split(' ').map(n => n[0]).join('').toUpperCase().slice(0, 2)
getInitials(name) ==
    LET parts == SplitOnSpace(name)
        firsts == Flatten([i \in DOMAIN parts |->
                     IF parts[i] = <<>> THEN <<>> ELSE <<parts[i][1]>>])
        up == toUpperCase(firsts)
    IN  SubSeq(up, 1, IF Len(up) < 2 THEN Len(up) ELSE 2)

\* DataWriter.generateDefaultLogo(name)
generateDefaultLogo(name) ==
    [bgColor |-> Str(stringToColor(name)), text |-> Str(getInitials(name))]

-----------------------------------------------------------------------------
(* Validity predicates                                                     *)

\* DataWriter.isValidNavigationData / DataLoader.isValidNavigationData
\* (typeof [] is 'object', and an array has no items key)
isValidNavigationData(data) ==
    /\ IsObject(data) \/ IsArray(data)
    /\ IsArray(Get(data, "items"))
    /\ IsString(Get(data, "lastUpdated"))

\* DataWriter.isValidItem
isValidItem(item) ==
    /\ IsObject(item) \/ IsArray(item)
    /\ IsString(Get(item, "id"))
    /\ IsString(Get(item, "name"))
    /\ IsString(Get(item, "website"))
    /\ IsString(Get(item, "description"))
    /\ IsArray(Get(item, "category"))
    /\ \A i \in DOMAIN Get(item, "category").arr : IsString(Get(item, "category").arr[i])
    /\ IsBoolean(Get(item, "isOpenSource"))
    /\ IsString(Get(item, "lastUpdated"))

-----------------------------------------------------------------------------
(* localStorage and the two readers                                        *)

LOCAL_STORAGE_KEY == "navigation_data"
STORAGE_KEY == "admin_auth_state"
ADMIN_PASSWORD == "default_password"
TOKEN_EXPIRY == 24 * 60 * 60 * 1000

\* localStorage.getItem(key) is truthy: present and not the empty string
Truthy(text) == ~IsNull(text)

\* DataWriter.loadFromLocalStorage(), on the storage ls: the parsed overlay,
\* or Null when it is absent, does not parse or fails the structural check
loadFromLocalStorage(ls) ==
    LET data == ls[LOCAL_STORAGE_KEY]
    IN  IF Truthy(data) /\ ~ParseThrows(data) /\ isValidNavigationData(JSONparse(data))
        THEN JSONparse(data)
        ELSE Null

\* a reader that never looks at the overlay
DataLoaderLocal_Skipped(ls) == Null

\* the first half of DataLoader.loadNavigationData: the same overlay read
DataLoaderLocal(ls) ==
    LET localData == ls[LOCAL_STORAGE_KEY]
    IN  IF Truthy(localData) /\ ~ParseThrows(localData)
           /\ isValidNavigationData(JSONparse(localData))
        THEN JSONparse(localData)
        ELSE Null

\* the second half of DataLoader.loadNavigationData, given the response of
\* fetch(DATA_URL): the data, or the error thrown
DataLoaderFetch(response) ==
    IF ~response.ok THEN [ok |-> FALSE, data |-> Null]
    ELSE IF ParseThrows(response.body) THEN [ok |-> FALSE, data |-> Null]
    ELSE IF ~isValidNavigationData(JSONparse(response.body))
         THEN [ok |-> FALSE, data |-> Null]
    ELSE [ok |-> TRUE, data |-> JSONparse(response.body)]

\* a resolution that prefers the bundled dataset and fails with it
loadNavigationDataFrom_FetchFirst(localData, fetchedData) ==
    [ok |-> fetchedData.ok, data |-> fetchedData.data, fetched |-> TRUE]

\* a resolution that takes an overlay without items for no overlay
loadNavigationDataFrom_EmptyIgnored(localData, fetchedData) ==
    IF ~IsNull(localData) /\ localData.items.arr # <<>>
    THEN [ok |-> TRUE, data |-> localData, fetched |-> FALSE]
    ELSE [ok |-> fetchedData.ok, data |-> fetchedData.data, fetched |-> TRUE]

\* DataLoader.loadNavigationData() from its two reads on: the overlay wins,
\* the fetched dataset is consulted only without it
loadNavigationDataFrom(localData, fetchedData) ==
    IF ~IsNull(localData)
    THEN [ok |-> TRUE, data |-> localData, fetched |-> FALSE]
    ELSE [ok |-> fetchedData.ok, data |-> fetchedData.data, fetched |-> TRUE]

\* DataLoader.loadNavigationData() as a whole, when the fetch (if it is
\* reached) answers `response`
loadNavigationData(ls, response) ==
    loadNavigationDataFrom(DataLoaderLocal(ls), DataLoaderFetch(response))

\* a loadData that does not read the overlay
loadDataFrom_Unread(localData, data, now) ==
    IF data.ok /\ data.fetched THEN data.data
    ELSE [items |-> Arr(<<>>), lastUpdated |-> Str(toISOString(now))]

\* a loadData that starts from nothing when there is no overlay
loadDataFrom_NoSeed(localData, data, now) ==
    IF ~IsNull(localData) THEN localData
    ELSE [items |-> Arr(<<>>), lastUpdated |-> Str(toISOString(now))]

\* DataWriter.loadData() from its two reads on: the overlay, else the data
\* of DataLoader, else an empty collection stamped now
loadDataFrom(localData, data, now) ==
    IF ~IsNull(localData) THEN localData
    ELSE IF data.ok THEN data.data
    ELSE [items |-> Arr(<<>>), lastUpdated |-> Str(toISOString(now))]

\* DataWriter.loadData() as a whole
loadData(ls, response, now) ==
    loadDataFrom(loadFromLocalStorage(ls), loadNavigationData(ls, response), now)

\* a download of the items alone
downloadAsJsonFile_ItemsOnly(data) == JSONstringify(data.items)

\* DataWriter.downloadAsJsonFile(data): the text of the file navigation.json
\* (JSON.stringify(data, null, 2); the indentation does not change what the
\* text parses to)
downloadAsJsonFile(data) == JSONstringify(data)

\* a write of the items without the collection around them
saveToLocalStorage_ItemsOnly(ls, data) ==
    [ls EXCEPT ![LOCAL_STORAGE_KEY] = JSONstringify(data.items)]

\* a write that is dropped
saveToLocalStorage_Dropped(ls, data) == ls

\* a write that leaves nothing else in the storage
saveToLocalStorage_Exclusive(ls, data) ==
    [k \in DOMAIN ls |-> IF k = LOCAL_STORAGE_KEY THEN JSONstringify(data) ELSE Null]

\* DataWriter.saveToLocalStorage(data): the storage after setItem
saveToLocalStorage(ls, data) ==
    [ls EXCEPT ![LOCAL_STORAGE_KEY] = JSONstringify(data)]

-----------------------------------------------------------------------------
(* DataWriter mutations, up to the storage write                           *)

\* ids of the records of an items array, in order
ItemIds(arr) == [i \in DOMAIN arr |-> Get(arr[i], "id")]

\* first index of arr whose id is `id`, 0 for findIndex's -1
findIndex(arr, id) ==
    IF \E i \in DOMAIN arr : Get(arr[i], "id") = id
    THEN CHOOSE i \in DOMAIN arr :
            /\ Get(arr[i], "id") = id
            /\ \A j \in 1..(i - 1) : Get(arr[j], "id") # id
    ELSE 0

\* arr.filter(item => item.id !== id)
filterOut(arr, id) ==
    LET idx == SelectIdx(ItemIds(arr), SeqToSet(ItemIds(arr)) \ {id}, 1)
    IN  [i \in DOMAIN idx |-> arr[idx[i]]]

\* an updatedData that keeps the lastUpdated of currentData
Updated_Unstamped(currentData, updatedItems, stamp, touched) ==
    [error |-> "none",
     data |-> Spread(currentData, [items |-> Arr(updatedItems)]),
     touched |-> touched]

\* what a mutation hands to saveToLocalStorage: { ...currentData, items,
\* lastUpdated }, with the record it made
Updated(currentData, updatedItems, stamp, touched) ==
    [error |-> "none",
     data |-> Spread(currentData, [items |-> Arr(updatedItems), lastUpdated |-> stamp]),
     touched |-> touched]

\* a mutation that throws before the write
Thrown(error) == [error |-> error, data |-> Null, touched |-> Null]

\* addItem that puts the new record in the place of the one with its id
addItemWith_Overwriting(currentData, newItem, stamp) ==
    Updated(currentData,
            IF \E i \in DOMAIN currentData.items.arr :
                 Get(currentData.items.arr[i], "id") = Get(newItem, "id")
            THEN [i \in DOMAIN currentData.items.arr |->
                    IF Get(currentData.items.arr[i], "id") = Get(newItem, "id")
                    THEN newItem ELSE currentData.items.arr[i]]
            ELSE Append(currentData.items.arr, newItem),
            stamp, newItem)

\* addItem that puts the new record first
addItemWith_Prepending(currentData, newItem, stamp) ==
    IF \E i \in DOMAIN currentData.items.arr :
         Get(currentData.items.arr[i], "id") = Get(newItem, "id")
    THEN Thrown("DuplicateId")
    ELSE Updated(currentData, <<newItem>> \o currentData.items.arr, stamp, newItem)

\* addItem without its duplicate check
addItemWith_Unchecked(currentData, newItem, stamp) ==
    Updated(currentData, Append(currentData.items.arr, newItem), stamp, newItem)

\* DataWriter.addItem once newItem is built: the duplicate check, the append
addItemWith(currentData, newItem, stamp) ==
    IF \E i \in DOMAIN currentData.items.arr :
         Get(currentData.items.arr[i], "id") = Get(newItem, "id")
    THEN Thrown("DuplicateId")
    ELSE Updated(currentData, Append(currentData.items.arr, newItem), stamp, newItem)

\* a newItem whose logo is drawn from the name and the time
NewItem_TimedLogo(itemData, name, now) ==
    Spread(itemData,
           [id |-> Str(generateId(name, now)),
            logo |-> generateDefaultLogo(name \o toString36(now)),
            lastUpdated |-> Str(toISOString(now))])

\* a newItem whose input fields win: { id, logo, lastUpdated, ...itemData }
NewItem_InputWins(itemData, name, now) ==
    Spread([id |-> Str(generateId(name, now)), logo |-> generateDefaultLogo(name),
            lastUpdated |-> Str(toISOString(now))],
           itemData)

\* the newItem of DataWriter.addItem: { ...itemData, id, logo, lastUpdated }
NewItem(itemData, name, now) ==
    Spread(itemData,
           [id |-> Str(generateId(name, now)), logo |-> generateDefaultLogo(name),
            lastUpdated |-> Str(toISOString(now))])

\* DataWriter.addItem from `currentData` on: the error thrown, or the
\* updatedData handed to saveToLocalStorage
addItemBody(currentData, itemData, now) ==
    addItemWith(currentData, NewItem(itemData, Get(itemData, "name").str, now),
                Str(toISOString(now)))

\* updateItem that moves the record it updates to the end
updateItemAt_MoveToEnd(currentData, itemIndex, updatedItemData, stamp) ==
    IF itemIndex = 0 THEN Thrown("NotFound")
    ELSE Updated(currentData,
                 Append(SubSeq(currentData.items.arr, 1, itemIndex - 1)
                          \o SubSeq(currentData.items.arr, itemIndex + 1,
                                    Len(currentData.items.arr)),
                        Spread(Spread(currentData.items.arr[itemIndex], updatedItemData),
                               [lastUpdated |-> stamp])),
                 stamp,
                 Spread(Spread(currentData.items.arr[itemIndex], updatedItemData),
                        [lastUpdated |-> stamp]))

\* updateItem that adds the record it does not find
updateItemAt_Upsert(currentData, itemIndex, updatedItemData, stamp) ==
    Updated(currentData,
            IF itemIndex = 0
            THEN Append(currentData.items.arr,
                        Spread(updatedItemData, [lastUpdated |-> stamp]))
            ELSE [currentData.items.arr EXCEPT ![itemIndex] =
                    Spread(Spread(@, updatedItemData), [lastUpdated |-> stamp])],
            stamp,
            IF itemIndex = 0 THEN Spread(updatedItemData, [lastUpdated |-> stamp])
            ELSE Spread(Spread(currentData.items.arr[itemIndex], updatedItemData),
                        [lastUpdated |-> stamp]))

\* DataWriter.updateItem once findIndex has answered
updateItemAt(currentData, itemIndex, updatedItemData, stamp) ==
    IF itemIndex = 0 THEN Thrown("NotFound")
    ELSE Updated(currentData,
                 [currentData.items.arr EXCEPT ![itemIndex] =
                    Spread(Spread(@, updatedItemData), [lastUpdated |-> stamp])],
                 stamp,
                 Spread(Spread(currentData.items.arr[itemIndex], updatedItemData),
                        [lastUpdated |-> stamp]))

\* DataWriter.updateItem from `currentData` on
updateItemBody(currentData, itemId, updatedItemData, now) ==
    updateItemAt(currentData, findIndex(currentData.items.arr, itemId),
                 updatedItemData, Str(toISOString(now)))

\* DataWriter.deleteItem once the items are filtered
deleteItemWith(currentData, updatedItems, stamp) ==
    IF Len(updatedItems) = Len(currentData.items.arr) THEN Thrown("NotFound")
    ELSE Updated(currentData, updatedItems, stamp, Null)

\* DataWriter.deleteItem from `currentData` on
deleteItemBody(currentData, itemId, now) ==
    deleteItemWith(currentData, filterOut(currentData.items.arr, itemId),
                   Str(toISOString(now)))

\* the body of the mutation a call stands for
MutationBody(call, currentData, now) ==
    IF call.kind = "add" THEN addItemBody(currentData, call.input, now)
    ELSE IF call.kind = "update"
         THEN updateItemBody(currentData, call.id, call.input, now)
    ELSE deleteItemBody(currentData, call.id, now)

-----------------------------------------------------------------------------
(* AuthUtils                                                               *)

\* AuthUtils.generateToken(): 32 random bytes; the token is never compared,
\* one value stands for all of them
generateToken == Str(<<"t","o","k">>)

\* AuthUtils.getAuthState() on the storage ls
getAuthState(ls) ==
    LET stored == ls[STORAGE_KEY]
    IN  IF Truthy(stored) /\ ~ParseThrows(stored) THEN JSONparse(stored) ELSE Null

\* AuthUtils.login(password): the value returned
loginResult(password) == password = ADMIN_PASSWORD

\* a login that drops the stored session when the password is wrong
loginStorage_ClearsOnFailure(ls, password, now) ==
    IF password = ADMIN_PASSWORD
    THEN [ls EXCEPT ![STORAGE_KEY] =
            JSONstringify([isAuthenticated |-> Bool(TRUE),
                           token |-> generateToken,
                           expiresAt |-> Num(now + TOKEN_EXPIRY)])]
    ELSE [ls EXCEPT ![STORAGE_KEY] = Null]

\* AuthUtils.login(password): the storage afterwards
loginStorage(ls, password, now) ==
    IF password = ADMIN_PASSWORD
    THEN [ls EXCEPT ![STORAGE_KEY] =
            JSONstringify([isAuthenticated |-> Bool(TRUE),
                           token |-> generateToken,
                           expiresAt |-> Num(now + TOKEN_EXPIRY)])]
    ELSE ls

\* a logout that clears the whole storage
logoutStorage_ClearAll(ls) == [k \in DOMAIN ls |-> Null]

\* AuthUtils.logout(): the storage afterwards
logoutStorage(ls) == [ls EXCEPT ![STORAGE_KEY] = Null]

\* the token of a stored state has expired
Expired(authState, now) ==
    /\ IsNumber(Get(authState, "expiresAt"))
    /\ Get(authState, "expiresAt").num # 0
    /\ now > Get(authState, "expiresAt").num

\* AuthUtils.isAuthenticated(): the value returned
isAuthenticated(ls, now) ==
    LET authState == getAuthState(ls)
    IN  /\ ~IsNull(authState)
        /\ Get(authState, "isAuthenticated") = Bool(TRUE)
        /\ IsString(Get(authState, "token")) /\ Get(authState, "token").str # <<>>
        /\ ~Expired(authState, now)

\* a check that renews the session it finds valid
isAuthenticatedStorage_Sliding(ls, now) ==
    IF isAuthenticated(ls, now)
    THEN [ls EXCEPT ![STORAGE_KEY] =
            JSONstringify([isAuthenticated |-> Bool(TRUE),
                           token |-> generateToken,
                           expiresAt |-> Num(now + TOKEN_EXPIRY)])]
    ELSE logoutStorage(ls)

\* AuthUtils.isAuthenticated(): the storage afterwards (an expired session
\* is logged out)
isAuthenticatedStorage(ls, now) ==
    LET authState == getAuthState(ls)
    IN  IF /\ ~IsNull(authState)
           /\ Get(authState, "isAuthenticated") = Bool(TRUE)
           /\ IsString(Get(authState, "token")) /\ Get(authState, "token").str # <<>>
           /\ Expired(authState, now)
        THEN logoutStorage(ls)
        ELSE ls

-----------------------------------------------------------------------------
(* The data the environment can supply                                     *)

Name1 == <<"E"," ","c">>
Name2 == <<"E","-","c","!">>
BlankName == <<" ">>
Url1 == <<"u",":">>
ValidUrls == {Url1}

\* a record of the bundled dataset
SeedItem ==
    [id |-> Str(<<"s","1">>), name |-> Str(Name1), website |-> Str(Url1),
     description |-> Str(<<"d">>), category |-> Arr(<<Str(<<"c">>)>>),
     isOpenSource |-> Bool(TRUE), lastUpdated |-> Str(toISOString(0)),
     logo |-> generateDefaultLogo(Name1), github |-> Str(<<"g">>)]

\* a second record carrying the same id, which fails isValidItem as well:
\* its isOpenSource is a string
SeedTwin == [SeedItem EXCEPT !.name = Str(Name2), !.isOpenSource = Str(<<"y">>)]

\* a record of an uploaded file: the id of SeedItem, no github key
FileItem ==
    Rest([SeedItem EXCEPT !.description = Str(<<"f">>)], {"github"})

Collection(its) == [items |-> Arr(its), lastUpdated |-> Str(toISOString(0))]

\* { items: "not-an-array", lastUpdated: "x" }
NotACollection == [items |-> Str(<<"n">>), lastUpdated |-> Str(<<"x">>)]

\* { items: [...] }, which lacks lastUpdated
Unstamped == [items |-> Arr(<<FileItem>>)]

Garbage == [garbage |-> TRUE]

\* what fetch('/data/navigation.json') can answer
Responses ==
    { [ok |-> TRUE,  body |-> JSONstringify(Collection(<<SeedItem>>))],
      [ok |-> TRUE,  body |-> JSONstringify(Collection(<<SeedItem, SeedTwin>>))],
      [ok |-> TRUE,  body |-> JSONstringify(NotACollection)],
      [ok |-> TRUE,  body |-> Garbage],
      [ok |-> FALSE, body |-> Garbage] }

\* the files the user can pick for import
Files ==
    { JSONstringify(Collection(<<FileItem>>)),
      JSONstringify(NotACollection),
      JSONstringify(Unstamped),
      Garbage }

\* what the overlay slot can hold when the session starts, before any
\* mutation of this session
InitialOverlays == {Null, Garbage, JSONstringify(NotACollection)}

Passwords == {ADMIN_PASSWORD, "wrong"}

-----------------------------------------------------------------------------
(* NavigationForm                                                          *)

\* s.trim() is not empty
NonBlank(v) == IsString(v) /\ \E i \in DOMAIN v.str : ~IsSpace(v.str[i])

\* NavigationForm.validateForm
validateForm(formData) ==
    /\ NonBlank(Get(formData, "name"))
    /\ NonBlank(Get(formData, "website"))
    /\ Get(formData, "website").str \in ValidUrls
    /\ NonBlank(Get(formData, "description"))
    /\ IsArray(Get(formData, "category")) /\ Get(formData, "category").arr # <<>>

\* the formData a user can have typed into the form: opened blank at time
\* `opened` for a new item, or opened on initialData for an edit
FormDatas(initialData, opened) ==
    LET blank == [id |-> Str(<<>>), name |-> Str(<<>>), website |-> Str(<<>>),
                  description |-> Str(<<>>), category |-> Arr(<<>>),
                  isOpenSource |-> Bool(FALSE),
                  lastUpdated |-> Str(toISOString(opened))]
        typedNew == { [name |-> Str(n), website |-> Str(Url1),
                       description |-> Str(<<"d">>),
                       category |-> Arr(<<Str(<<"c">>)>>),
                       github |-> Str(<<"h">>)] :
                      n \in {Name1, BlankName} }
        typedEdit == { [name |-> Str(n)] : n \in {Name2, BlankName} }
    IN  IF IsUndefined(initialData)
        THEN { Spread(blank, t) : t \in typedNew }
        ELSE { Spread(initialData, t) : t \in typedEdit }

\* NavigationForm.handleSubmit: what reaches onSubmit
handleSubmit(formData) == Rest(formData, {"id", "logo"})

-----------------------------------------------------------------------------
(* AdminPage: helpers                                                      *)

\* new Date(item.lastUpdated).getTime(); -1 stands for NaN
TimeOf(item) ==
    IF IsString(Get(item, "lastUpdated")) /\ IsIsoText(Get(item, "lastUpdated").str)
    THEN getTime(Get(item, "lastUpdated").str)
    ELSE -1

\* the comparator of data.sort(...) is negative: b is older than a
Before(a, b) == TimeOf(a) >= 0 /\ TimeOf(b) >= 0 /\ TimeOf(b) - TimeOf(a) < 0

RECURSIVE InsertSorted(_, _)
\* insertion of x behind every element the comparator does not put after it
InsertSorted(sorted, x) ==
    IF sorted = <<>> THEN <<x>>
    ELSE IF Before(x, Head(sorted)) THEN <<x>> \o sorted
    ELSE <<Head(sorted)>> \o InsertSorted(Tail(sorted), x)

RECURSIVE SortNewestFirst(_)
\* data.sort((a, b) => new Date(b.lastUpdated) - new Date(a.lastUpdated)),
\* a stable sort
SortNewestFirst(arr) ==
    IF arr = <<>> THEN <<>>
    ELSE InsertSorted(SortNewestFirst(SubSeq(arr, 1, Len(arr) - 1)), arr[Len(arr)])

\* a modal (the form or the delete dialog) covers the page
ModalOpen == showForm \/ (showDeleteConfirm /\ ~IsNull(selectedItem))

\* a mutation that swallows the error of the write
ResultOf_Swallowed(body, writeOk) ==
    IF body.error # "none" THEN body.error ELSE "ok"

\* how a mutation ends: the error of its body, or the error setItem threw,
\* which saveToLocalStorage and the mutation rethrow
ResultOf(body, writeOk) ==
    IF body.error # "none" THEN body.error
    ELSE IF ~writeOk THEN "PersistFailed"
    ELSE "ok"

\* a mutation that fails when neither source could be loaded
OutcomeOf_Unavailable(currentData, body, result, lsNow, data, writeOk) ==
    [result |-> IF data.ok THEN result ELSE "DataUnavailable",
     rejected |-> body.error = "none" /\ ~writeOk,
     currentData |-> currentData,
     touched |-> body.touched,
     returned |-> IF data.ok /\ result = "ok" THEN body.data.items ELSE Null,
     ls |-> IF data.ok /\ result = "ok"
            THEN saveToLocalStorage(lsNow, body.data) ELSE lsNow,
     fetched |-> data.fetched,
     resolvable |-> data.ok]

\* what a mutation that ended with `result` leaves: the storage, the items
\* it returns
OutcomeOf(currentData, body, result, lsNow, data, writeOk) ==
    [result |-> result,
     rejected |-> body.error = "none" /\ ~writeOk,
     currentData |-> currentData,
     touched |-> body.touched,
     returned |-> IF result = "ok" THEN body.data.items ELSE Null,
     ls |-> IF result = "ok" THEN saveToLocalStorage(lsNow, body.data) ELSE lsNow,
     fetched |-> data.fetched,
     resolvable |-> data.ok]

\* a mutation from the collection it loaded on
OutcomeFrom(call, currentData, lsNow, data, now, writeOk) ==
    OutcomeOf(currentData, MutationBody(call, currentData, now),
              ResultOf(MutationBody(call, currentData, now), writeOk), lsNow, data,
              writeOk)

\* DataWriter.addItem / updateItem / deleteItem as a whole: the outcome of
\* the call that read the storage lsRead when it was made and writes to the
\* storage lsNow, when the fetch (if reached) answers `response` and setItem
\* succeeds iff writeOk
Outcome(call, lsRead, lsNow, response, now, writeOk) ==
    OutcomeFrom(call, loadData(lsRead, response, now), lsNow,
                loadNavigationData(lsRead, response), now, writeOk)

\* the observation of a step that neither calls nor completes an operation
NoObs ==
    [invoked |-> "none", auth |-> TRUE, done |-> "none", result |-> "none",
     id |-> Null, input |-> Null, before |-> localStorage, currentData |-> Null,
     touched |-> Null, fetched |-> FALSE,
     resolvable |-> FALSE, overlapped |-> FALSE, rejected |-> FALSE,
     file |-> Null]

\* the observation of a completed mutation
Completed(call, out, invokedNow, authNow, overlapped) ==
    [invoked |-> IF invokedNow THEN call.kind ELSE "none",
     auth |-> authNow, done |-> call.kind, result |-> out.result,
     id |-> call.id, input |-> call.input, before |-> localStorage,
     currentData |-> out.currentData, touched |-> out.touched,
     fetched |-> out.fetched,
     resolvable |-> out.resolvable, overlapped |-> overlapped,
     rejected |-> out.rejected, file |-> Null]

\* a call suspended on its fetch or file read; `seen` is the overlay slot as
\* the call read it, `orphan` tells that the page that made it is gone
Suspended(kind, id, input) ==
    [kind |-> kind, id |-> id, input |-> input,
     seen |-> localStorage[LOCAL_STORAGE_KEY], orphan |-> FALSE]

MutationKinds == {"add", "update", "delete"}

\* a settled call that stays in flight
Remove_Kept(seq, i) == seq

Remove(seq, i) == SubSeq(seq, 1, i - 1) \o SubSeq(seq, i + 1, Len(seq))

OverlayValid == ~IsNull(loadFromLocalStorage(localStorage))

-----------------------------------------------------------------------------
(* The state machine                                                       *)

PageState0 ==
    /\ items' = Arr(<<>>)
    /\ editingItem' = Undefined
    /\ showForm' = FALSE
    /\ selectedItem' = Null
    /\ showDeleteConfirm' = FALSE

PageUnchanged ==
    UNCHANGED <<items, editingItem, showForm, selectedItem, showDeleteConfirm>>

\* the state every run starts in, but for the session slot and the budgets
Start(session, nCalls, nVisits) ==
    /\ clock = 0
    /\ localStorage \in
         { [k \in {LOCAL_STORAGE_KEY, STORAGE_KEY} |->
              IF k = LOCAL_STORAGE_KEY THEN o ELSE session] : o \in InitialOverlays }
    /\ route = "/login"
    /\ items = Arr(<<>>)
    /\ editingItem = Undefined
    /\ showForm = FALSE
    /\ selectedItem = Null
    /\ showDeleteConfirm = FALSE
    /\ inflight = <<>>
    /\ callsLeft = nCalls
    /\ visitsLeft = nVisits
    /\ last = [invoked |-> "none", auth |-> TRUE, done |-> "none", result |-> "none",
               id |-> Null, input |-> Null, before |-> localStorage,
               currentData |-> Null, touched |-> Null,
               fetched |-> FALSE, resolvable |-> FALSE, overlapped |-> FALSE,
               rejected |-> FALSE, file |-> Null]

\* the browser of an administrator who logged in at time 0
Init ==
    Start(JSONstringify([isAuthenticated |-> Bool(TRUE), token |-> generateToken,
                         expiresAt |-> Num(TOKEN_EXPIRY)]),
          MaxCalls, 1)

\* a browser that holds no session
InitSession == Start(Null, MaxSessionCalls, MaxSessionVisits)

\* one millisecond passes
Tick ==
    /\ clock % TOKEN_EXPIRY < MaxTicks
    /\ clock' = clock + 1
    /\ last' = NoObs
    /\ UNCHANGED <<localStorage, route, inflight>>
    /\ PageUnchanged
    /\ UNCHANGED <<callsLeft, visitsLeft>>

\* a day passes
DayPasses ==
    /\ clock \div TOKEN_EXPIRY < MaxDays
    /\ clock' = clock + TOKEN_EXPIRY
    /\ last' = NoObs
    /\ UNCHANGED <<localStorage, route, inflight>>
    /\ PageUnchanged
    /\ UNCHANGED <<callsLeft, visitsLeft>>

\* the login page calls AuthUtils.login(password)
Login ==
    /\ route = "/login"
    /\ \E password \in Passwords :
         /\ localStorage' = loginStorage(localStorage, password, clock)
         /\ last' = [NoObs EXCEPT !.invoked = "login",
                       !.input = [password |-> password],
                       !.result = IF loginResult(password) THEN "ok" ELSE "denied"]
    /\ UNCHANGED <<clock, route, inflight>>
    /\ PageUnchanged
    /\ UNCHANGED <<callsLeft, visitsLeft>>

\* navigation to /admin: AuthGuard renders; when it lets through, AdminPage
\* mounts and its effect loads the items
VisitAdmin ==
    /\ route # "/admin"
    /\ visitsLeft > 0
    /\ visitsLeft' = visitsLeft - 1
    /\ LET auth == isAuthenticated(localStorage, clock)
           ls == isAuthenticatedStorage(localStorage, clock)
           localData == DataLoaderLocal(ls)
       IN  /\ localStorage' = ls
           /\ IF ~auth THEN
                 /\ route' = "/login"
                 /\ last' = [NoObs EXCEPT !.invoked = "guard", !.auth = FALSE]
                 /\ UNCHANGED inflight
                 /\ PageUnchanged
              ELSE IF ~IsNull(localData) THEN
                 /\ route' = "/admin"
                 /\ items' = Arr(SortNewestFirst(localData.items.arr))
                 /\ UNCHANGED <<editingItem, showForm, selectedItem, showDeleteConfirm>>
                 /\ last' = [NoObs EXCEPT !.invoked = "load", !.done = "load",
                               !.result = "ok", !.currentData = localData,
                               !.resolvable = TRUE]
                 /\ UNCHANGED inflight
              ELSE
                 /\ Len(inflight) < MaxInFlight
                 /\ route' = "/admin"
                 /\ inflight' = Append(inflight, Suspended("load", Null, Null))
                 /\ last' = [NoObs EXCEPT !.invoked = "load"]
                 /\ PageUnchanged
    /\ UNCHANGED clock
    /\ UNCHANGED callsLeft

\* AdminPage.handleLogout; the page unmounts, the calls it made go on
handleLogout ==
    /\ route = "/admin" /\ ~ModalOpen
    /\ localStorage' = logoutStorage(localStorage)
    /\ route' = "/login"
    /\ inflight' = [i \in DOMAIN inflight |-> [inflight[i] EXCEPT !.orphan = TRUE]]
    /\ PageState0
    /\ last' = [NoObs EXCEPT !.invoked = "logout"]
    /\ UNCHANGED clock
    /\ UNCHANGED <<callsLeft, visitsLeft>>

\* AdminPage.handleAddItem; a dialog is opened
\* only while the run may still call an operation from it
handleAddItem ==
    /\ callsLeft > 0
    /\ route = "/admin" /\ ~ModalOpen
    /\ editingItem' = Undefined
    /\ showForm' = TRUE
    /\ last' = NoObs
    /\ UNCHANGED <<clock, localStorage, route, items, selectedItem,
                   showDeleteConfirm, inflight>>
    /\ UNCHANGED <<callsLeft, visitsLeft>>

\* AdminPage.handleEditItem(item), for a displayed item; a dialog is opened
\* only while the run may still call an operation from it
handleEditItem ==
    /\ callsLeft > 0
    /\ route = "/admin" /\ ~ModalOpen
    /\ \E i \in DOMAIN items.arr :
         /\ editingItem' = items.arr[i]
         /\ showForm' = TRUE
    /\ last' = NoObs
    /\ UNCHANGED <<clock, localStorage, route, items, selectedItem,
                   showDeleteConfirm, inflight>>
    /\ UNCHANGED <<callsLeft, visitsLeft>>

\* AdminPage.handleFormCancel
handleFormCancel ==
    /\ route = "/admin" /\ showForm
    /\ showForm' = FALSE
    /\ editingItem' = Undefined
    /\ last' = NoObs
    /\ UNCHANGED <<clock, localStorage, route, items, selectedItem,
                   showDeleteConfirm, inflight>>
    /\ UNCHANGED <<callsLeft, visitsLeft>>

\* AdminPage.handleDeleteItem(item), for a displayed item; a dialog is opened
\* only while the run may still call an operation from it
handleDeleteItem ==
    /\ callsLeft > 0
    /\ route = "/admin" /\ ~ModalOpen
    /\ \E i \in DOMAIN items.arr :
         /\ selectedItem' = items.arr[i]
         /\ showDeleteConfirm' = TRUE
    /\ last' = NoObs
    /\ UNCHANGED <<clock, localStorage, route, items, editingItem, showForm, inflight>>
    /\ UNCHANGED <<callsLeft, visitsLeft>>

\* the Cancel button of the delete dialog
cancelDelete ==
    /\ route = "/admin" /\ showDeleteConfirm /\ ~IsNull(selectedItem)
    /\ showDeleteConfirm' = FALSE
    /\ last' = NoObs
    /\ UNCHANGED <<clock, localStorage, route, items, editingItem, showForm,
                   selectedItem, inflight>>
    /\ UNCHANGED <<callsLeft, visitsLeft>>

\* what the handler that awaited `kind` does with the items returned
HandlerSuccess(kind, returned) ==
    /\ items' = returned
    /\ IF kind = "delete"
       THEN /\ showDeleteConfirm' = FALSE
            /\ selectedItem' = Null
            /\ UNCHANGED <<editingItem, showForm>>
       ELSE /\ showForm' = FALSE
            /\ editingItem' = Undefined
            /\ UNCHANGED <<selectedItem, showDeleteConfirm>>

\* a mutation call ends with the outcome `out`: the write, and what the
\* handler awaiting it does, unless its page is gone
Finish(call, out, invokedNow, authNow, overlapped, orphan) ==
    /\ localStorage' = out.ls
    /\ last' = Completed(call, out, invokedNow, authNow, overlapped)
    /\ IF out.result = "ok" /\ ~orphan
       THEN HandlerSuccess(call.kind, out.returned)
       ELSE PageUnchanged

\* a handler calls the mutation `call`: with a valid overlay the call
\* resolves before any other event is handled, otherwise it suspends on the
\* fetch of the bundled dataset
CallMutation(call) ==
    IF OverlayValid THEN
        /\ \E writeOk \in BOOLEAN :
             Finish(call,
                    Outcome(call, localStorage, localStorage,
                            [ok |-> FALSE, body |-> Garbage], clock, writeOk),
                    TRUE, isAuthenticated(localStorage, clock), FALSE, FALSE)
        /\ UNCHANGED inflight
    ELSE
        /\ Len(inflight) < MaxInFlight
        /\ inflight' = Append(inflight, Suspended(call.kind, call.id, call.input))
        /\ last' = [NoObs EXCEPT !.invoked = call.kind,
                      !.auth = isAuthenticated(localStorage, clock),
                      !.id = call.id, !.input = call.input]
        /\ UNCHANGED localStorage
        /\ PageUnchanged

\* NavigationForm.handleSubmit and AdminPage.handleFormSubmit
handleFormSubmit ==
    /\ callsLeft > 0
    /\ callsLeft' = callsLeft - 1
    /\ UNCHANGED visitsLeft
    /\ route = "/admin" /\ showForm
    /\ \E formData \in FormDatas(editingItem, 0) :
           /\ validateForm(formData)
           /\ CallMutation(
                IF ~IsUndefined(editingItem)
                THEN [kind |-> "update", id |-> Get(editingItem, "id"),
                      input |-> handleSubmit(formData)]
                ELSE [kind |-> "add", id |-> Null, input |-> handleSubmit(formData)])
    /\ UNCHANGED <<clock, route>>

\* AdminPage.confirmDeleteItem
confirmDeleteItem ==
    /\ callsLeft > 0
    /\ callsLeft' = callsLeft - 1
    /\ UNCHANGED visitsLeft
    /\ route = "/admin" /\ showDeleteConfirm /\ ~IsNull(selectedItem)
    /\ CallMutation([kind |-> "delete", id |-> Get(selectedItem, "id"), input |-> Null])
    /\ UNCHANGED <<clock, route>>

\* the fetch of the suspended mutation `call` settles with `response`, and
\* the call runs to its end
SettleMutation(call, response, writeOk) ==
    Finish(call,
           Outcome(call, [localStorage EXCEPT ![LOCAL_STORAGE_KEY] = call.seen],
                   localStorage, response, clock, writeOk),
           FALSE, TRUE, localStorage[LOCAL_STORAGE_KEY] # call.seen, call.orphan)

MutationSettle ==
    \E i \in DOMAIN inflight : \E response \in Responses : \E writeOk \in BOOLEAN :
      /\ inflight[i].kind \in MutationKinds
      /\ inflight' = Remove(inflight, i)
      /\ SettleMutation(inflight[i], response, writeOk)
      /\ UNCHANGED <<clock, route, callsLeft, visitsLeft>>

\* the observation of a resolveCollection that fetched
Resolved(kind, r, overlapped) ==
    [NoObs EXCEPT !.done = kind,
                  !.result = IF r.ok THEN "ok" ELSE "DataUnavailable",
                  !.currentData = r.data,
                  !.fetched = TRUE, !.resolvable = r.ok,
                  !.overlapped = overlapped]

\* then / catch of AdminPage's load effect, for the fetched result r
SettleLoad(call, r) ==
    /\ IF r.ok /\ ~call.orphan
       THEN /\ items' = Arr(SortNewestFirst(r.data.items.arr))
            /\ UNCHANGED <<editingItem, showForm, selectedItem, showDeleteConfirm>>
       ELSE PageUnchanged
    /\ last' = Resolved("load", r, localStorage[LOCAL_STORAGE_KEY] # call.seen)

\* the fetch of AdminPage's initial load settles
LoadSettle ==
    \E i \in DOMAIN inflight : \E response \in Responses :
      /\ inflight[i].kind = "load"
      /\ inflight' = Remove(inflight, i)
      /\ SettleLoad(inflight[i], DataLoaderFetch(response))
      /\ UNCHANGED <<clock, localStorage, route, callsLeft, visitsLeft>>

\* AdminPage.handleExportData: resolveCollection, then the download
handleExportData ==
    /\ callsLeft > 0
    /\ callsLeft' = callsLeft - 1
    /\ UNCHANGED visitsLeft
    /\ route = "/admin" /\ ~ModalOpen
    /\ LET auth == isAuthenticated(localStorage, clock)
           localData == DataLoaderLocal(localStorage)
       IN  IF ~IsNull(localData) THEN
               /\ last' = [NoObs EXCEPT !.invoked = "export", !.auth = auth,
                             !.done = "export", !.result = "ok",
                             !.currentData = localData, !.resolvable = TRUE,
                             !.file = downloadAsJsonFile(localData)]
               /\ UNCHANGED inflight
           ELSE
               /\ Len(inflight) < MaxInFlight
               /\ inflight' = Append(inflight, Suspended("export", Null, Null))
               /\ last' = [NoObs EXCEPT !.invoked = "export", !.auth = auth]
    /\ UNCHANGED <<clock, localStorage, route>>
    /\ PageUnchanged

\* the rest of handleExportData, for the fetched result r: the download, or
\* the catch
SettleExport(call, r) ==
    last' = [Resolved("export", r, localStorage[LOCAL_STORAGE_KEY] # call.seen)
               EXCEPT !.file = IF r.ok THEN downloadAsJsonFile(r.data) ELSE Null]

\* the fetch of a suspended export settles
ExportSettle ==
    \E i \in DOMAIN inflight : \E response \in Responses :
      /\ inflight[i].kind = "export"
      /\ inflight' = Remove(inflight, i)
      /\ SettleExport(inflight[i], DataLoaderFetch(response))
      /\ UNCHANGED <<clock, localStorage, route, callsLeft, visitsLeft>>
      /\ PageUnchanged

\* AdminPage.handleImportData: the file picked is handed to
\* DataWriter.uploadFromJsonFile, which suspends on the FileReader
handleImportData ==
    /\ callsLeft > 0
    /\ callsLeft' = callsLeft - 1
    /\ UNCHANGED visitsLeft
    /\ route = "/admin" /\ ~ModalOpen
    /\ Len(inflight) < MaxInFlight
    /\ \E file \in Files :
         /\ inflight' = Append(inflight, Suspended("import", Null, file))
         /\ last' = [NoObs EXCEPT !.invoked = "import", !.input = file,
                       !.auth = isAuthenticated(localStorage, clock)]
    /\ UNCHANGED <<clock, localStorage, route>>
    /\ PageUnchanged

\* DataWriter.uploadFromJsonFile from reader.onload / reader.onerror on: the
\* promise's outcome for the text `file`
uploadFromJsonFile(file, readOk) ==
    IF ~readOk THEN [result |-> "ReadFailed", data |-> Null]
    ELSE IF ParseThrows(file) THEN [result |-> "MalformedFile", data |-> Null]
    ELSE IF ~isValidNavigationData(JSONparse(file))
         THEN [result |-> "InvalidSchema", data |-> Null]
    ELSE [result |-> "ok", data |-> JSONparse(file)]

\* a catch that empties the list
SettleImport_Cleared(call, r) ==
    /\ items' = IF r.result = "ok" /\ ~call.orphan THEN r.data.items ELSE Arr(<<>>)
    /\ UNCHANGED <<editingItem, showForm, selectedItem, showDeleteConfirm>>
    /\ last' = [NoObs EXCEPT !.done = "import", !.result = r.result,
                  !.input = call.input, !.currentData = r.data]

\* then / catch of handleImportData, for the outcome r of the upload
SettleImport(call, r) ==
    /\ IF r.result = "ok" /\ ~call.orphan
       THEN /\ items' = r.data.items
            /\ UNCHANGED <<editingItem, showForm, selectedItem, showDeleteConfirm>>
       ELSE PageUnchanged
    /\ last' = [NoObs EXCEPT !.done = "import", !.result = r.result,
                  !.input = call.input, !.currentData = r.data]

\* the FileReader of a suspended import settles
FileReadSettle ==
    \E i \in DOMAIN inflight : \E readOk \in BOOLEAN :
      /\ inflight[i].kind = "import"
      /\ inflight' = Remove(inflight, i)
      /\ SettleImport(inflight[i], uploadFromJsonFile(inflight[i].input, readOk))
      /\ UNCHANGED <<clock, localStorage, route, callsLeft, visitsLeft>>

Next ==
    \/ Tick
    \/ VisitAdmin
    \/ handleAddItem
    \/ handleEditItem
    \/ handleFormCancel
    \/ handleDeleteItem
    \/ cancelDelete
    \/ handleFormSubmit
    \/ confirmDeleteItem
    \/ MutationSettle
    \/ LoadSettle
    \/ handleExportData
    \/ ExportSettle
    \/ handleImportData
    \/ FileReadSettle

NextSession ==
    \/ Next
    \/ DayPasses
    \/ Login
    \/ handleLogout

\* one visit of a logged-in administrator, within a day
Spec == Init /\ [][Next]_vars

\* logins, logouts and the expiry of sessions
SpecSession == InitSession /\ [][NextSession]_vars

\* an operation of one of the kinds K waits for its fetch or its file read
Waiting(K) == \E i \in DOMAIN inflight : inflight[i].kind \in K

\* the visit of Spec when every fetch and every file read that is pending
\* eventually settles: weak fairness of each settle step, its enabling
\* condition (an operation of the kind waits) written out
SpecLive ==
    /\ Init /\ [][Next]_vars
    /\ []<>(~Waiting(MutationKinds)) \/ []<><<MutationSettle>>_vars
    /\ []<>(~Waiting({"load"})) \/ []<><<LoadSettle>>_vars
    /\ []<>(~Waiting({"export"})) \/ []<><<ExportSettle>>_vars
    /\ []<>(~Waiting({"import"})) \/ []<><<FileReadSettle>>_vars

-----------------------------------------------------------------------------
(* Properties                                                              *)

\* the overlay a storage holds, Null when it holds none that passes the
\* structural check
OverlayOf(ls) == loadFromLocalStorage(ls)

\* what resolveCollection yields now without the bundled dataset
ResolvedNow == loadNavigationData(localStorage, [ok |-> FALSE, body |-> Garbage])

\* the call the last observation is about
LastCall == [kind |-> last.done, id |-> last.id, input |-> last.input]

SucceededLast(kind) == last.done = kind /\ last.result = "ok"

\* C1: after a successful addItem on a resolvable collection, resolving
\* yields exactly the items the call loaded followed by one new record, whose
\* id differs from the id of every one of those items.
C1_AddThenResolve ==
    (SucceededLast("add") /\ last.resolvable) =>
        /\ ResolvedNow.ok
        /\ ResolvedNow.data.items.arr = Append(last.currentData.items.arr, last.touched)
        /\ \A i \in DOMAIN last.currentData.items.arr :
             Get(last.currentData.items.arr[i], "id") # Get(last.touched, "id")

C1_Witness ==
    /\ SucceededLast("add") /\ last.resolvable
    /\ Len(last.currentData.items.arr) >= 1
    /\ Len(ResolvedNow.data.items.arr) = Len(last.currentData.items.arr) + 1

\* C2: the records of the persisted overlay have pairwise distinct ids,
\* whatever collection the source reader accepted.
C2_DistinctIds ==
    OverlayValid =>
        \A i, j \in DOMAIN OverlayOf(localStorage).items.arr :
            i # j => Get(OverlayOf(localStorage).items.arr[i], "id")
                       # Get(OverlayOf(localStorage).items.arr[j], "id")

\* C3: after a successful updateItem every field of the record but id, logo
\* and lastUpdated equals the corresponding field of the input (a field the
\* input does not carry is not in the record either).
C3_UpdateEqualsInput ==
    SucceededLast("update") =>
        \A k \in (DOMAIN last.touched) \ {"id", "logo", "lastUpdated"} :
            Get(last.touched, k) = Get(last.input, k)

\* C4: after a successful import the overlay holds exactly the imported
\* collection.
C4_ImportReplacesOverlay ==
    SucceededLast("import") => OverlayOf(localStorage) = last.currentData

\* C5: every record of the persisted overlay passes isValidItem.
C5_OverlayItemsValid ==
    OverlayValid =>
        \A i \in DOMAIN OverlayOf(localStorage).items.arr :
            isValidItem(OverlayOf(localStorage).items.arr[i])

\* C6: once the storage holds a persisted overlay it keeps holding one, and
\* every resolveCollection called from then on (by the page's load, by an
\* export, by a mutation) completes with the overlay's content without the
\* bundled dataset being fetched.
C6_OverlayWins ==
    ~IsNull(OverlayOf(last.before)) =>
        /\ OverlayValid
        /\ last.invoked \in {"load", "export"} \cup MutationKinds =>
             /\ last.done = last.invoked
             /\ ~last.fetched
             /\ last.currentData = OverlayOf(last.before)

C6_Witness ==
    /\ ~IsNull(OverlayOf(last.before))
    /\ last.invoked = "export" /\ last.done = "export"
    /\ Len(last.currentData.items.arr) >= 1

\* C7: a successful mutation leaves in the overlay what it loaded itself with
\* its own change applied, so of two overlapping mutations the later write
\* wins: a call overtaken by another write worked on what it fetched, not on
\* that write. A mutation that was not overtaken and found an overlay worked
\* on that overlay, so the overlay reflects every mutation before it.
C7_LaterWriteWins ==
    (last.done \in MutationKinds /\ last.result = "ok") =>
        /\ localStorage[LOCAL_STORAGE_KEY] =
             JSONstringify(MutationBody(LastCall, last.currentData, clock).data)
        /\ last.overlapped => last.fetched
        /\ (~last.overlapped /\ ~IsNull(OverlayOf(last.before))) =>
             last.currentData = OverlayOf(last.before)

\* a successful mutation has just overwritten an overlay, and a record of
\* that overlay is gone although the mutation was not its deletion
C7_Witness ==
    /\ last.done = "add" /\ last.result = "ok" /\ last.overlapped
    /\ ~IsNull(OverlayOf(last.before))
    /\ \E i \in DOMAIN OverlayOf(last.before).items.arr :
         \A j \in DOMAIN OverlayOf(localStorage).items.arr :
            OverlayOf(localStorage).items.arr[j] # OverlayOf(last.before).items.arr[i]

\* C8: at most one of the page's mutation calls is in flight.
C8_OneMutationInFlight ==
    Cardinality({i \in DOMAIN inflight :
                   inflight[i].kind \in MutationKinds /\ ~inflight[i].orphan}) <= 1

\* C9: the admin page invokes no mutation and no import while
\* isAuthenticated() would answer false.
C9_NoCallUnauthenticated ==
    last.invoked \in MutationKinds \cup {"import"} => last.auth

\* C10: updateItem for an id the collection does not hold fails with NotFound
\* and writes nothing: the storage is as it was.
C10_UpdateAbsentId ==
    (last.done = "update"
       /\ \A i \in DOMAIN last.currentData.items.arr :
            Get(last.currentData.items.arr[i], "id") # last.id) =>
        /\ last.result = "NotFound"
        /\ localStorage = last.before

C10_Witness ==
    /\ last.done = "update" /\ last.result = "NotFound"
    /\ Len(last.currentData.items.arr) >= 1

\* the collection the last completed call loaded holds a record with id `id`
LoadedHolds(id) ==
    \E i \in DOMAIN last.currentData.items.arr :
        Get(last.currentData.items.arr[i], "id") = id

\* the record the last completed update found under its id
RecordBefore ==
    last.currentData.items.arr[findIndex(last.currentData.items.arr, last.id)]

\* a parsed value has an items sequence and a string lastUpdated
HasItemsAndStamp(v) == IsArray(Get(v, "items")) /\ IsString(Get(v, "lastUpdated"))

\* the overlay slot of the storage ls is absent or structurally invalid
NoUsableOverlay(ls) ==
    \/ IsNull(ls[LOCAL_STORAGE_KEY])
    \/ ParseThrows(ls[LOCAL_STORAGE_KEY])
    \/ ~HasItemsAndStamp(JSONparse(ls[LOCAL_STORAGE_KEY]))

\* the bundled fetch fails: a non-success status, or a payload that is not a
\* structurally valid collection
FetchFails(response) ==
    \/ ~response.ok
    \/ ParseThrows(response.body)
    \/ ~HasItemsAndStamp(JSONparse(response.body))

\* C11: a deleteItem(id) whose collection holds the id succeeds (when its
\* write is accepted) and persists exactly one record fewer than it loaded; a
\* deleteItem(id) whose collection does not hold the id, as a second delete of
\* the same id finds it, fails with NotFound and leaves the storage as it was.
C11_DeleteTwice ==
    last.done = "delete" =>
        IF LoadedHolds(last.id)
        THEN ~last.rejected =>
                /\ last.result = "ok"
                /\ OverlayValid
                /\ Len(OverlayOf(localStorage).items.arr)
                     = Len(last.currentData.items.arr) - 1
        ELSE /\ last.result = "NotFound"
             /\ localStorage = last.before

\* C12: an addItem whose generated id is the id of a record of the collection
\* it loaded fails with DuplicateId and leaves the storage as it was: no
\* record is overwritten.
C12_DuplicateIdRejected ==
    (last.done = "add"
       /\ LoadedHolds(Str(generateId(Get(last.input, "name").str, clock)))) =>
        /\ last.result = "DuplicateId"
        /\ localStorage = last.before

\* two adds of one name within one millisecond: the second is refused while
\* the overlay holds the record of the first
C12_Witness ==
    /\ last.done = "add" /\ last.result = "DuplicateId"
    /\ ~IsNull(OverlayOf(last.before))
    /\ LoadedHolds(Str(generateId(Get(last.input, "name").str, clock)))

\* C13: a mutation whose storage write is rejected fails with PersistFailed,
\* and the storage, the committed overlay with it, is what it was before.
C13_PersistFailed ==
    last.rejected =>
        /\ last.done \in MutationKinds
        /\ last.result = "PersistFailed"
        /\ localStorage = last.before

\* a write is rejected while the storage holds a committed overlay
C13_Witness ==
    /\ last.rejected
    /\ ~IsNull(OverlayOf(last.before))
    /\ Len(OverlayOf(last.before).items.arr) >= 1
    /\ OverlayOf(localStorage) = OverlayOf(last.before)

\* C14: an import whose file was read fails with MalformedFile exactly when
\* the text does not parse and with InvalidSchema exactly when the parsed value
\* lacks an items sequence or a string lastUpdated; a failed import changes
\* neither the storage nor the items of the page.
C14_ImportFailureAppliesNothing ==
    [][(last'.done = "import" /\ last'.result # "ReadFailed") =>
          /\ (last'.result = "MalformedFile") = ParseThrows(last'.input)
          /\ (last'.result = "InvalidSchema") =
                (~ParseThrows(last'.input)
                   /\ ~HasItemsAndStamp(JSONparse(last'.input)))
          /\ last'.result \in {"MalformedFile", "InvalidSchema"} =>
                /\ localStorage' = localStorage
                /\ items' = items]_vars

\* a file without lastUpdated is refused while the page shows records
C14_Witness ==
    /\ last.done = "import" /\ last.result = "InvalidSchema"
    /\ last.input = JSONstringify(Unstamped)
    /\ Len(items.arr) >= 1

\* C15: whatever the bundled fetch answers, resolveCollection on the current
\* storage fails if and only if the overlay is absent or structurally invalid
\* and the fetch fails, and otherwise yields a collection with an items
\* sequence and a string lastUpdated; a load or an export that completes ends
\* either way.
C15_DataUnavailableIff ==
    /\ \A response \in Responses :
         /\ (~loadNavigationData(localStorage, response).ok)
              = (NoUsableOverlay(localStorage) /\ FetchFails(response))
         /\ loadNavigationData(localStorage, response).ok =>
              HasItemsAndStamp(loadNavigationData(localStorage, response).data)
    /\ last.done \in {"load", "export"} =>
         /\ last.result \in {"ok", "DataUnavailable"}
         /\ (last.result = "DataUnavailable") = (~last.resolvable)
         /\ last.result = "ok" => HasItemsAndStamp(last.currentData)

\* an export fails with DataUnavailable on a storage without usable overlay
C15_Witness ==
    /\ last.done = "export" /\ last.result = "DataUnavailable"
    /\ NoUsableOverlay(localStorage)

\* C16: an addItem that found no valid overlay and whose bundled fetch failed
\* proceeds from an empty collection and, when its write is accepted,
\* succeeds and leaves an overlay that holds exactly the one new record.
C16_AddWithoutSource ==
    (last.done = "add" /\ ~last.resolvable /\ ~last.rejected) =>
        /\ last.currentData.items.arr = <<>>
        /\ last.result = "ok"
        /\ OverlayValid
        /\ OverlayOf(localStorage).items.arr = <<last.touched>>

C16_Witness ==
    /\ last.done = "add" /\ ~last.resolvable /\ last.fetched
    /\ last.result = "ok"
    /\ Len(OverlayOf(localStorage).items.arr) = 1

\* C17: a successful mutation leaves a collection stamped with the time of
\* the operation, never earlier than the stamp of the collection it loaded
\* or of the overlay it replaced; an added or updated record is in it with
\* that stamp too.
C17_StampsBumped ==
    (last.done \in MutationKinds /\ last.result = "ok") =>
        /\ OverlayOf(localStorage).lastUpdated = Str(toISOString(clock))
        /\ getTime(OverlayOf(localStorage).lastUpdated.str)
             >= getTime(last.currentData.lastUpdated.str)
        /\ ~IsNull(OverlayOf(last.before)) =>
             getTime(OverlayOf(localStorage).lastUpdated.str)
               >= getTime(OverlayOf(last.before).lastUpdated.str)
        /\ last.done \in {"add", "update"} =>
             /\ Get(last.touched, "lastUpdated") = Str(toISOString(clock))
             /\ \E i \in DOMAIN OverlayOf(localStorage).items.arr :
                  OverlayOf(localStorage).items.arr[i] = last.touched

\* a deletion after the clock has advanced past the stamp of its collection
C17_Witness ==
    /\ SucceededLast("delete")
    /\ getTime(OverlayOf(localStorage).lastUpdated.str)
         > getTime(last.currentData.lastUpdated.str)

\* C18: a successful update leaves the record with a lastUpdated strictly
\* later than the one it had, two updates of one record within one
\* millisecond included (time 0, the stamp of the bundled records, aside).
C18_UpdateStrictlyLater ==
    (SucceededLast("update") /\ clock > 0) =>
        TimeOf(last.touched) > TimeOf(RecordBefore)

C20_WholeCollectionWrites ==
    [][localStorage'[LOCAL_STORAGE_KEY] # localStorage[LOCAL_STORAGE_KEY] =>
          /\ last'.done \in MutationKinds /\ last'.result = "ok"
          /\ ~ParseThrows(localStorage'[LOCAL_STORAGE_KEY])
          /\ HasItemsAndStamp(JSONparse(localStorage'[LOCAL_STORAGE_KEY]))
          /\ JSONparse(localStorage'[LOCAL_STORAGE_KEY]) =
               MutationBody([kind |-> last'.done, id |-> last'.id,
                             input |-> last'.input],
                            last'.currentData, clock').data]_vars

\* an update has replaced an overlay of two records by another of two
C20_Witness ==
    /\ SucceededLast("update")
    /\ ~IsNull(OverlayOf(last.before))
    /\ OverlayOf(localStorage) # OverlayOf(last.before)
    /\ Len(OverlayOf(localStorage).items.arr) = 2

\* the storage as the suspended call `call` read it
StorageSeenBy(call) == [localStorage EXCEPT ![LOCAL_STORAGE_KEY] = call.seen]

\* the record r is one of the records of the items array arr
Among(r, arr) == \E i \in DOMAIN arr : arr[i] = r

\* C21: a mutation called while the storage holds a committed overlay works
\* on exactly that overlay, read at the call, and a call still waiting for
\* the bundled dataset found no usable overlay when it was made; so the
\* second of two sequential mutations keeps what the first one wrote: every
\* record of the overlay it found that it does not itself replace or delete
\* is in the overlay it leaves.
C21_ResolvedPerCall ==
    /\ \A i \in DOMAIN inflight :
         inflight[i].kind \in MutationKinds => NoUsableOverlay(StorageSeenBy(inflight[i]))
    /\ (last.done \in MutationKinds /\ last.invoked = last.done) =>
         /\ ~NoUsableOverlay(last.before)
         /\ last.currentData = OverlayOf(last.before)
         /\ last.result = "ok" =>
              \A i \in DOMAIN OverlayOf(last.before).items.arr :
                 \/ Get(OverlayOf(last.before).items.arr[i], "id") = last.id
                 \/ Among(OverlayOf(last.before).items.arr[i],
                          OverlayOf(localStorage).items.arr)

\* the second of two sequential adds: the record of the first is kept
C21_Witness ==
    /\ last.invoked = "add" /\ SucceededLast("add")
    /\ Len(OverlayOf(last.before).items.arr) >= 1
    /\ Len(OverlayOf(localStorage).items.arr) = Len(OverlayOf(last.before).items.arr) + 1
    /\ \A i \in DOMAIN OverlayOf(last.before).items.arr :
         Get(OverlayOf(last.before).items.arr[i], "id") # Str(<<"s", "1">>)

\* C22: after a successful create or update whose input carries a lastUpdated
\* of its own, the stored record has the time of the operation as its
\* lastUpdated; after a successful create the stored id is the generated one,
\* and it would be the same had the input carried an id.
C22_SystemSetFields ==
    /\ (last.done \in {"add", "update"} /\ last.result = "ok"
          /\ IsString(Get(last.input, "lastUpdated"))) =>
         /\ Get(last.touched, "lastUpdated") = Str(toISOString(clock))
         /\ Among(last.touched, OverlayOf(localStorage).items.arr)
    /\ SucceededLast("add") =>
         /\ Get(last.touched, "id")
              = Str(generateId(Get(last.input, "name").str, clock))
         /\ Get(addItemBody(last.currentData,
                            Spread(last.input, [id |-> Str(<<"u">>)]),
                            clock).touched, "id")
              = Str(generateId(Get(last.input, "name").str, clock))

\* a create whose input carries an older lastUpdated
C22_Witness ==
    /\ SucceededLast("add")
    /\ IsString(Get(last.input, "lastUpdated"))
    /\ Get(last.input, "lastUpdated") # Get(last.touched, "lastUpdated")
    /\ Among(last.touched, OverlayOf(localStorage).items.arr)

\* C23: an export triggered while the page holds loaded records produces
\* the download.
C23_ExportNeverFails ==
    (last.done = "export" /\ Len(items.arr) >= 1) =>
        /\ last.result = "ok"
        /\ ~IsNull(last.file)

\* C24: every collection the source reader accepts from the overlay, and
\* every collection an import accepts from a file, holds only records that
\* pass isValidItem.
C24_ReadersGateRecords ==
    (last.result = "ok"
       /\ \/ last.done = "import"
          \/ last.done \in {"load", "export"} \cup MutationKinds /\ ~last.fetched) =>
        \A i \in DOMAIN last.currentData.items.arr :
            isValidItem(last.currentData.items.arr[i])

\* the expiry of the session the storage ls holds
ExpiresAt(ls) == Get(getAuthState(ls), "expiresAt").num

\* C25: a successful login at time t stores a session that expires at
\* t + 24h; a stored session answers isAuthenticated() with true at every time
\* up to its expiry and with false after it, and no session answers false;
\* the stored session changes only by a successful login, by a logout or by
\* the removal of an expired session, so a check of a valid session leaves
\* its expiry as it is and an expired session stays refused until a login.
C25_AbsoluteExpiry ==
    [][/\ (last'.invoked = "login" /\ last'.result = "ok") =>
            /\ ~IsNull(getAuthState(localStorage'))
            /\ ExpiresAt(localStorage') = clock' + TOKEN_EXPIRY
       /\ IF IsNull(getAuthState(localStorage'))
          THEN ~isAuthenticated(localStorage', clock')
          ELSE isAuthenticated(localStorage', clock')
                 = (clock' <= ExpiresAt(localStorage'))
       /\ localStorage'[STORAGE_KEY] # localStorage[STORAGE_KEY] =>
            \/ last'.invoked = "login" /\ last'.result = "ok"
            \/ last'.invoked = "logout"
            \/ /\ last'.invoked = "guard"
               /\ ~isAuthenticated(localStorage, clock)
               /\ IsNull(localStorage'[STORAGE_KEY])]_vars

\* a session past its expiry is refused
C25_Witness ==
    /\ ~IsNull(getAuthState(localStorage))
    /\ clock > ExpiresAt(localStorage)
    /\ ~isAuthenticated(localStorage, clock)

\* C26: after a successful create the persisted items, and the items
\* returned to the page, are the items the call loaded, in their order and
\* unchanged, followed by the new record as the last element.
C26_CreateAppends ==
    SucceededLast("add") =>
        /\ Len(OverlayOf(localStorage).items.arr)
             = Len(last.currentData.items.arr) + 1
        /\ SubSeq(OverlayOf(localStorage).items.arr, 1, Len(last.currentData.items.arr))
             = last.currentData.items.arr
        /\ OverlayOf(localStorage).items.arr[Len(OverlayOf(localStorage).items.arr)]
             = last.touched
        /\ items = OverlayOf(localStorage).items

\* a create on a collection of two records
C26_Witness ==
    /\ SucceededLast("add")
    /\ Len(last.currentData.items.arr) = 2
    /\ items.arr[3] = last.touched
    /\ items.arr[1] = last.currentData.items.arr[1]

\* the array `after` is `before` with the record at one position holding `id`
\* replaced by `touched`
UpdatedInPlace(before, after, id, touched) ==
    /\ Len(after) = Len(before)
    /\ \E p \in DOMAIN before :
         /\ Get(before[p], "id") = id
         /\ after[p] = touched
         /\ \A q \in (DOMAIN before) \ {p} : after[q] = before[q]

\* the array `after` is `before` without the records holding `id`
DeletedFrom(before, after, id) ==
    after = SelectSeq(before, LAMBDA r : Get(r, "id") # id)

\* C27: after a successful update the persisted items are the items the call
\* loaded with the updated record at the position it had and every other
\* record unchanged; after a successful delete they are the remaining records
\* of the items the call loaded, unchanged and in their order.
C27_OthersUntouched ==
    /\ SucceededLast("update") =>
         UpdatedInPlace(last.currentData.items.arr,
                        OverlayOf(localStorage).items.arr, last.id, last.touched)
    /\ SucceededLast("delete") =>
         DeletedFrom(last.currentData.items.arr,
                     OverlayOf(localStorage).items.arr, last.id)

\* an update of the second of two records
C27_Witness ==
    /\ SucceededLast("update")
    /\ Len(last.currentData.items.arr) = 2
    /\ Get(last.currentData.items.arr[1], "id") # last.id
    /\ OverlayOf(localStorage).items.arr[2] = last.touched
    /\ OverlayOf(localStorage).items.arr[1] = last.currentData.items.arr[1]

\* C28: a successful mutation that found no valid overlay and fetched the
\* bundled dataset leaves an overlay that holds the bundled records with the
\* mutation's change applied and nothing else, and from then on resolving
\* yields that overlay without the bundled dataset.
C28_FirstMutationSeeds ==
    (last.done \in MutationKinds /\ last.result = "ok"
       /\ last.fetched /\ last.resolvable) =>
        /\ \E response \in Responses :
             ~FetchFails(response) /\ JSONparse(response.body) = last.currentData
        /\ \A i \in DOMAIN last.currentData.items.arr :
             \/ Get(last.currentData.items.arr[i], "id") = last.id
             \/ Among(last.currentData.items.arr[i], OverlayOf(localStorage).items.arr)
        /\ \A j \in DOMAIN OverlayOf(localStorage).items.arr :
             \/ OverlayOf(localStorage).items.arr[j] = last.touched
             \/ Among(OverlayOf(localStorage).items.arr[j], last.currentData.items.arr)
        /\ ResolvedNow.ok /\ ~ResolvedNow.fetched
        /\ ResolvedNow.data = OverlayOf(localStorage)

\* an update seeds the overlay with the two bundled records
C28_Witness ==
    /\ SucceededLast("update") /\ last.fetched /\ last.resolvable
    /\ IsNull(OverlayOf(last.before))
    /\ Len(OverlayOf(localStorage).items.arr) = 2

\* names and times the identifier and the logo are computed for
NameSamples ==
    { Name1, Name2,
      <<"A", " ", " ", "b", "9">>,
      <<" ", "x", "\t", "\n", "Y", " ">>,
      <<"a", " ", "b", " ", "c">> }
TimeSamples == {0, 1, 35, 36, 1296, TOKEN_EXPIRY}

\* the name of the input of the last call
LastName == Get(last.input, "name").str

RECURSIVE SlugFrom(_, _)
\* the slug of a name, read off character by character: lower-cased, one
\* hyphen for a run of whitespace, only a-z, 0-9 and the hyphen kept
SlugFrom(s, inRun) ==
    IF s = <<>> THEN <<>>
    ELSE IF IsSpace(Head(s))
         THEN (IF inRun THEN <<>> ELSE <<"-">>) \o SlugFrom(Tail(s), TRUE)
    ELSE IF \/ IndexOf(LowerChar(Head(s)), LowerPos) > 0
            \/ IndexOf(Head(s), DigitPos) > 0
            \/ Head(s) = "-"
         THEN <<LowerChar(Head(s))>> \o SlugFrom(Tail(s), FALSE)
    ELSE SlugFrom(Tail(s), FALSE)

RECURSIVE Base36Value(_)
\* the number a base-36 numeral stands for, -1 when it is not a numeral
Base36Value(s) ==
    IF s = <<>> THEN 0
    ELSE IF Base36Value(SubSeq(s, 1, Len(s) - 1)) < 0 THEN -1
    ELSE IF IndexOf(s[Len(s)], DigitPos) > 0
         THEN 36 * Base36Value(SubSeq(s, 1, Len(s) - 1))
                + IndexOf(s[Len(s)], DigitPos) - 1
    ELSE IF IndexOf(s[Len(s)], LowerPos) > 0
         THEN 36 * Base36Value(SubSeq(s, 1, Len(s) - 1))
                + IndexOf(s[Len(s)], LowerPos) + 9
    ELSE -1

\* id is slug(name), a hyphen, and the base-36 numeral of t
IsIdOf(id, name, t) ==
    /\ Len(id) >= Len(SlugFrom(name, FALSE)) + 2
    /\ SubSeq(id, 1, Len(SlugFrom(name, FALSE))) = SlugFrom(name, FALSE)
    /\ id[Len(SlugFrom(name, FALSE)) + 1] = "-"
    /\ Base36Value(SubSeq(id, Len(SlugFrom(name, FALSE)) + 2, Len(id))) = t
    /\ (Len(id) = Len(SlugFrom(name, FALSE)) + 2
          \/ id[Len(SlugFrom(name, FALSE)) + 2] # "0")

\* C29: the id a create generates is slug(name), a hyphen and the base-36
\* numeral of the clock, for the name submitted and for every sampled name
\* and time; the same name at two different times gets two different ids;
\* and the record a successful create stores carries that id.
C29_GeneratedId ==
    last.done = "add" =>
        /\ \A name \in NameSamples \cup {LastName} :
             \A t \in TimeSamples \cup {clock} :
                /\ IsIdOf(generateId(name, t), name, t)
                /\ \A u \in (TimeSamples \cup {clock}) \ {t} :
                     generateId(name, t) # generateId(name, u)
        /\ last.result = "ok" =>
             /\ IsString(Get(last.touched, "id"))
             /\ IsIdOf(Get(last.touched, "id").str, LastName, clock)

\* the create of "E c" at time 1 stores the id "e-c-1"
C29_Witness ==
    /\ SucceededLast("add") /\ clock = 1
    /\ LastName = Name1
    /\ Get(last.touched, "id") = Str(<<"e", "-", "c", "-", "1">>)

RECURSIVE WordStarts(_, _)
\* the first letters of the space-separated words of a name, upper-cased
WordStarts(s, atStart) ==
    IF s = <<>> THEN <<>>
    ELSE IF Head(s) = " " THEN WordStarts(Tail(s), TRUE)
    ELSE (IF atStart THEN <<UpperChar(Head(s))>> ELSE <<>>)
            \o WordStarts(Tail(s), FALSE)

\* the initials of a name: the first letters of its first two words
InitialsOf(name) ==
    SubSeq(WordStarts(name, TRUE), 1,
           IF Len(WordStarts(name, TRUE)) < 2 THEN Len(WordStarts(name, TRUE)) ELSE 2)

\* C30: the logo a create makes depends on the name alone: for the name
\* submitted and every sampled name the new record has the same logo at every
\* time, its text is the upper-cased first letters of the first two
\* space-separated words, and the create makes the same logo from the
\* collection it loaded and from an empty one.
C30_LogoFromName ==
    last.done = "add" =>
        /\ \A name \in NameSamples \cup {LastName} :
             \A t \in TimeSamples \cup {clock} :
                /\ Get(NewItem(last.input, name, t), "logo")
                     = Get(NewItem(last.input, name, clock), "logo")
                /\ Get(NewItem(last.input, name, t), "logo").text = Str(InitialsOf(name))
                /\ Len(InitialsOf(name)) <= 2
        /\ last.result = "ok" =>
             \A t \in TimeSamples :
                Get(addItemBody(Collection(<<>>), last.input, t).touched, "logo")
                  = Get(last.touched, "logo")

\* the second of two creates of one name, at another time and on another
\* collection, stores the logo of the first
C30_Witness ==
    /\ SucceededLast("add") /\ clock = 1
    /\ Get(last.touched, "logo").text = Str(<<"E", "C">>)
    /\ \E i \in DOMAIN last.currentData.items.arr :
         /\ Get(last.currentData.items.arr[i], "id") = Str(generateId(LastName, 0))
         /\ Get(last.currentData.items.arr[i], "name") = Get(last.touched, "name")
         /\ Get(last.currentData.items.arr[i], "logo") = Get(last.touched, "logo")

\* the kinds of the operations that can wait for a fetch or a file read
SuspendableKinds == MutationKinds \cup {"load", "export", "import"}

\* C31: when every pending fetch and file read eventually settles, the
\* operations in flight eventually are none, so none waits forever; an
\* operation leaves flight only in a step that completes or fails an
\* operation of its kind, which takes exactly that one out of flight and
\* starts none again; and operations enter flight only one at a time, by a
\* call.
C31_OperationsTerminate ==
    /\ (inflight # <<>>) ~> (inflight = <<>>)
    /\ [][/\ (last'.done # "none" /\ last'.invoked = "none") =>
                Len(inflight') = Len(inflight) - 1
          /\ Len(inflight') < Len(inflight) =>
                \E i \in DOMAIN inflight :
                   /\ inflight' = SubSeq(inflight, 1, i - 1)
                                    \o SubSeq(inflight, i + 1, Len(inflight))
                   /\ last'.done = inflight[i].kind
                   /\ last'.result # "none"
          /\ Len(inflight') > Len(inflight) =>
                /\ last'.invoked \in SuspendableKinds
                /\ inflight' = Append(inflight, inflight'[Len(inflight')])]_vars

\* a mutation that waited for its fetch has ended and nothing is in flight
C31_Witness ==
    /\ last.done \in MutationKinds /\ last.invoked = "none"
    /\ last.fetched
    /\ inflight = <<>>

\* the items in memory are, as a set, the items resolveCollection returns
\* from the storage as it is now (under some answer of the bundled fetch,
\* when it is reached)
InMemoryIsResolved ==
    \E response \in Responses :
       LET resolved == loadNavigationData(localStorage, response)
       IN  /\ resolved.ok
           /\ SeqToSet(items.arr) = SeqToSet(resolved.data.items.arr)

\* C32: after every successfully completed admin operation (initial load,
\* create, update, delete, import) the items held in memory are the same set
\* of records as the items resolveCollection would return at that moment.
C32_MemoryMatchesResolved ==
    (last.done \in MutationKinds \cup {"load", "import"} /\ last.result = "ok")
        => InMemoryIsResolved

C34_EmptyOverlayShadows ==
    (SucceededLast("delete") /\ Len(last.currentData.items.arr) = 1) =>
        /\ ~NoUsableOverlay(localStorage)
        /\ OverlayOf(localStorage).items.arr = <<>>
        /\ \A response \in Responses :
              LET resolved == loadNavigationData(localStorage, response)
              IN  /\ resolved.ok
                  /\ ~resolved.fetched
                  /\ resolved.data.items.arr = <<>>

\* the only record, which came from the bundled dataset, has been deleted
C34_Witness ==
    /\ SucceededLast("delete")
    /\ Len(last.currentData.items.arr) = 1
    /\ last.fetched
    /\ OverlayOf(localStorage).items.arr = <<>>

\* C35: on every storage the program reaches and under every answer of the
\* bundled fetch, DataLoader.loadNavigationData and DataWriter.loadData
\* resolve the same collection when the overlay is valid or the fetch
\* succeeds; when neither is, the first fails and the second yields a
\* collection without items.
C35_ReadersAgree ==
    \A response \in Responses :
       LET shown == loadNavigationData(localStorage, response)
           mutated == loadData(localStorage, response, clock)
       IN  IF ~NoUsableOverlay(localStorage) \/ ~FetchFails(response)
           THEN shown.ok /\ mutated = shown.data
           ELSE ~shown.ok /\ mutated.items.arr = <<>>

\* a mutation has worked, through loadData, on the records of the bundled
\* dataset that loadNavigationData resolves from the storage it found
C35_Witness ==
    /\ last.done \in MutationKinds /\ last.fetched /\ ~last.overlapped
    /\ NoUsableOverlay(last.before)
    /\ last.currentData.items.arr # <<>>
    /\ \E response \in Responses :
          /\ ~FetchFails(response)
          /\ last.currentData = loadNavigationData(last.before, response).data

\* C36: login(secret) returns true exactly when the secret is the admin
\* password, and then a valid session is stored; with a wrong secret it
\* returns false and leaves the storage as it was, so a valid session stays
\* authenticated and an absent session stays absent.
C36_LoginExact ==
    [][last'.invoked = "login" =>
         /\ (last'.result = "ok") <=> (last'.input.password = ADMIN_PASSWORD)
         /\ last'.result = "ok" => isAuthenticated(localStorage', clock')
         /\ last'.result # "ok" =>
              /\ last'.result = "denied"
              /\ localStorage' = localStorage
              /\ isAuthenticated(localStorage', clock')
                    = isAuthenticated(localStorage, clock)
              /\ IsNull(localStorage'[STORAGE_KEY])
                    = IsNull(localStorage[STORAGE_KEY])]_vars

\* a login with a wrong secret while a valid session is stored
C36_Witness ==
    /\ last.invoked = "login" /\ last.result = "denied"
    /\ last.input.password # ADMIN_PASSWORD
    /\ isAuthenticated(localStorage, clock)

\* the steps of the session: login, logout, and the check of the session by
\* the guard of /admin
SessionKinds == {"login", "logout", "guard", "load"}

\* the steps of the data: a call or a completion of create, update, delete,
\* import or export
DataKinds == MutationKinds \cup {"import", "export"}

\* C37: the session slot and the overlay slot are independent: a step of
\* login, logout or isAuthenticated leaves the overlay slot as it was, and a
\* step that calls or completes a create, update, delete, import or export
\* leaves the session slot as it was.
C37_SlotsIndependent ==
    [][/\ last'.invoked \in SessionKinds =>
            localStorage'[LOCAL_STORAGE_KEY] = localStorage[LOCAL_STORAGE_KEY]
       /\ (last'.invoked \in DataKinds \/ last'.done \in DataKinds) =>
            localStorage'[STORAGE_KEY] = localStorage[STORAGE_KEY]]_vars

\* a create has written the overlay beside a stored session
C37_Witness ==
    /\ SucceededLast("add")
    /\ localStorage[LOCAL_STORAGE_KEY] # last.before[LOCAL_STORAGE_KEY]
    /\ localStorage[STORAGE_KEY] = last.before[STORAGE_KEY]
    /\ ~IsNull(localStorage[STORAGE_KEY])

====
